---- MODULE Spec2Model ----
(***************************************************************************)
(* A model of models/CommonVAE.py: the LatentStateEncoder and the          *)
(* EmissionDecoder modules and their forward passes.                       *)
(*                                                                         *)
(* A tensor is a record [ok, at, err, shape, rows].  shape is the torch    *)
(* shape; rows holds one entry per index of dimension 0.  A row does not   *)
(* hold floating point data.  It holds                                     *)
(*   own : the part of the input the row was computed from (its input      *)
(*         channels, or its latent vector),                                *)
(*   ctx : one entry per normalisation layer passed, saying which          *)
(*         statistics normalised the row: the statistics of the batch      *)
(*         (a bag of the rows of the batch) or the layer's running         *)
(*         statistics (identified by the layer's update counter),          *)
(*   val : the number leaving the last Linear layer and the activation     *)
(*         applied to it, in float32 (an integer before the activation,   *)
(*         units of 2^-24 after it).                                       *)
(* Shapes, errors and buffer updates follow the layers' arithmetic.        *)
(***************************************************************************)
EXTENDS Integers, Sequences, FiniteSets, TLC

\* ------------------------------------------------------------------ bounds

\* Decoder inputs [batch, time, width] have batch <= MaxBatch, time <= MaxTime.
MaxBatch == 5
MaxTime == 5
\* Decoder inputs with batch * time <= MaxValN carry every choice of latents.
MaxValN == 4
\* Encoder inputs [batch, channels, H, W].
MaxEncBatch == 2
MaxChannels == 3
\* Encoder inputs with batch * channels <= MaxEncVals carry every choice of images.
MaxEncVals == 4
MaxSpatial == 64
\* A forward pass in training mode is taken while every counter is below this.
MaxTracked == 1

BatchSizeChoices == {1, 2, 16}
GenerationLenChoices == {1, 2}
DimChoices == {28, 31, 32, 33, 40}
NumFiltersChoices == {2}
LatentDimChoices == {2}
ZAmortChoices == {1, 2}
\* Widths of the last axis of a decoder input.
WidthChoices == {1, 2}
\* Entries of a latent vector, and images of a channel.
LatentChoices == {0, 1}
PixelChoices == {0, 1}
\* (H, W) of an encoder input with any batch and channel count; every square
\* up to MaxSpatial is an input too, at the largest batch and channel count.
SpatialChoices ==
  {<<1, 1>>, <<3, 3>>, <<16, 16>>, <<24, 24>>, <<28, 28>>, <<32, 32>>, <<25, 56>>,
   <<56, 25>>, <<24, 28>>, <<28, 57>>, <<57, 28>>, <<64, 64>>}
\* The parameters an optimizer may have left in a Linear layer.
LinearChoices ==
  {[weight |-> 0, bias |-> 20], [weight |-> 1, bias |-> 0], [weight |-> 1, bias |-> 0 - 20]}

\* ----------------------------------------------------------------- helpers

Min(a, b) == IF a < b THEN a ELSE b

RECURSIVE SumSeq(_)
SumSeq(s) == IF s = <<>> THEN 0 ELSE Head(s) + SumSeq(Tail(s))

RECURSIVE Prod(_)
Prod(s) == IF s = <<>> THEN 1 ELSE Head(s) * Prod(Tail(s))

Ten(shape, rows) == [ok |-> TRUE, at |-> 0, err |-> "", shape |-> shape, rows |-> rows]

\* A framework error raised by layer number at (0: by forward itself).
Err(at, what) == [ok |-> FALSE, at |-> at, err |-> what, shape |-> <<>>, rows |-> <<>>]

\* The rows of a batch as a bag: what a statistic over the batch axis reads.
BagOf(rows) ==
  [v \in {rows[i].own : i \in DOMAIN rows} |->
     Cardinality({i \in DOMAIN rows : rows[i].own = v})]

NoBag == [v \in {} |-> 0]

\* ------------------------------------------------------------------ layers

Conv2d(cin, cout, k, s, p) ==
  [op |-> "Conv2d", cin |-> cin, cout |-> cout, k |-> k, s |-> s, p |-> p, opad |-> 0]

ConvTranspose2d(cin, cout, k, s, p, opad) ==
  [op |-> "ConvTranspose2d", cin |-> cin, cout |-> cout, k |-> k, s |-> s, p |-> p,
   opad |-> opad]

BatchNorm1d(c) == [op |-> "BatchNorm1d", c |-> c]
BatchNorm2d(c) == [op |-> "BatchNorm2d", c |-> c]
LeakyReLU == [op |-> "LeakyReLU"]
AvgPool2d(k) == [op |-> "AvgPool2d", k |-> k]
Flatten == [op |-> "Flatten"]
UnFlatten(w) == [op |-> "UnFlatten", w |-> w]
Linear(fin, fout) == [op |-> "Linear", fin |-> fin, fout |-> fout]
Tanh == [op |-> "Tanh"]
Sigmoid == [op |-> "Sigmoid"]

\* Output extent of a convolution (dilation 1).
ConvOut(h, k, s, p) == ((h + 2 * p - k) \div s) + 1

\* ConvTOut without the output padding.
ConvTOut_NoOutputPadding(h, k, s, p, opad) == (h - 1) * s - 2 * p + (k - 1) + 1

\* Output extent of a transposed convolution (dilation 1).
ConvTOut(h, k, s, p, opad) == (h - 1) * s - 2 * p + (k - 1) + opad + 1

\* PoolOut rounding up (ceil_mode).
PoolOut_Ceil(h, k) == ((h - 1) \div k) + 1

\* Output extent of a pooling window of size and stride k, no padding.
PoolOut(h, k) == ((h - k) \div k) + 1

\* float32: 1.0 in units of 2^-24, the spacing of float32 in [0.5, 1].
One == 16777216

\* tanh(k) rounded to float32, in units of 2^-24, for k = 1 .. 9.
TanhTable ==
  <<12777430, 16173699, 16694249, 16765964, 16775693, 16777010, 16777188,
    16777212, 16777215>>

\* No squashing: the value itself, in units of 2^-24.
TanhF32_None(k) == k * One

\* torch.tanh on the float32 value k (an integer): from 10 on the result is 1.0.
TanhF32(k) ==
  IF k = 0 THEN 0
  ELSE IF k > 0 THEN (IF k > Len(TanhTable) THEN One ELSE TanhTable[k])
  ELSE (IF 0 - k > Len(TanhTable) THEN 0 - One ELSE 0 - TanhTable[0 - k])

\* The number a Linear layer makes of a row: bias + weight * feature.  The
\* features the layers before it compute are not modelled; the sum of the
\* entries of the input the row was computed from stands for them.
LinearVal(lin, own) == lin.bias + lin.weight * SumSeq(own)

\* In training mode a normalisation layer refuses a batch holding one value per
\* channel.
OneValuePerChannel(shape) == shape[1] * Prod(SubSeq(shape, 3, Len(shape))) = 1

\* Batch statistics in either mode.
NormStat_AlwaysBatch(T, training, tracked) ==
  [batch |-> TRUE, bag |-> BagOf(T.rows), run |-> 0]

\* The entry a normalisation layer adds to the rows of T.
NormStat(T, training, tracked) ==
  IF training THEN [batch |-> TRUE, bag |-> BagOf(T.rows), run |-> 0]
  ELSE [batch |-> FALSE, bag |-> NoBag, run |-> tracked]

\* Buffers updated in either mode.
NormUpdates_Always(training) == TRUE

\* A normalisation layer updates its buffers exactly when it is in training mode.
NormUpdates(training) == training

BatchNorm(i, L, rank, T, training, tracked) ==
  IF Len(T.shape) # rank \/ T.shape[2] # L.c THEN [t |-> Err(i, L.op), upd |-> FALSE]
  ELSE IF training /\ OneValuePerChannel(T.shape) THEN [t |-> Err(i, L.op), upd |-> FALSE]
  ELSE [t |-> Ten(T.shape,
                  [r \in DOMAIN T.rows |->
                     [T.rows[r] EXCEPT !.ctx = Append(@, NormStat(T, training, tracked))]]),
        upd |-> NormUpdates(training)]

\* utils.layers.Flatten: [N, ...] to [N, everything else].
FlattenShape(shape) == <<shape[1], Prod(Tail(shape))>>

\* utils.layers.UnFlatten(w): [N, F] to [N, F / (w * w), w, w].
UnFlattenFits(shape, w) == Len(shape) = 2 /\ shape[2] % (w * w) = 0
UnFlattenShape(shape, w) == <<shape[1], shape[2] \div (w * w), w, w>>

\* Layer number i, L, applied to the tensor T of a module in the given mode,
\* whose Linear parameters are lin and whose layer i has update counter tracked.
\* t is the result and upd says whether the layer's buffers were updated.
ApplyLayer(i, L, T, training, lin, tracked) ==
  CASE L.op = "Conv2d" ->
         [t |-> IF Len(T.shape) # 4 \/ T.shape[2] # L.cin
                   \/ T.shape[3] + 2 * L.p < L.k \/ T.shape[4] + 2 * L.p < L.k
                THEN Err(i, L.op)
                ELSE Ten(<<T.shape[1], L.cout, ConvOut(T.shape[3], L.k, L.s, L.p),
                           ConvOut(T.shape[4], L.k, L.s, L.p)>>, T.rows),
          upd |-> FALSE]
    [] L.op = "ConvTranspose2d" ->
         [t |-> IF Len(T.shape) # 4 \/ T.shape[2] # L.cin
                THEN Err(i, L.op)
                ELSE Ten(<<T.shape[1], L.cout,
                           ConvTOut(T.shape[3], L.k, L.s, L.p, L.opad),
                           ConvTOut(T.shape[4], L.k, L.s, L.p, L.opad)>>, T.rows),
          upd |-> FALSE]
    [] L.op = "BatchNorm2d" -> BatchNorm(i, L, 4, T, training, tracked)
    [] L.op = "BatchNorm1d" -> BatchNorm(i, L, 2, T, training, tracked)
    [] L.op = "LeakyReLU" -> [t |-> T, upd |-> FALSE]
    [] L.op = "Sigmoid" -> [t |-> T, upd |-> FALSE]
    [] L.op = "AvgPool2d" ->
         [t |-> IF Len(T.shape) # 4 \/ PoolOut(T.shape[3], L.k) < 1
                   \/ PoolOut(T.shape[4], L.k) < 1
                THEN Err(i, L.op)
                ELSE Ten(<<T.shape[1], T.shape[2], PoolOut(T.shape[3], L.k),
                           PoolOut(T.shape[4], L.k)>>, T.rows),
          upd |-> FALSE]
    [] L.op = "Flatten" -> [t |-> Ten(FlattenShape(T.shape), T.rows), upd |-> FALSE]
    [] L.op = "UnFlatten" ->
         [t |-> IF UnFlattenFits(T.shape, L.w)
                THEN Ten(UnFlattenShape(T.shape, L.w), T.rows)
                ELSE Err(i, L.op),
          upd |-> FALSE]
    [] L.op = "Linear" ->
         [t |-> IF T.shape[Len(T.shape)] # L.fin
                THEN Err(i, L.op)
                ELSE Ten([T.shape EXCEPT ![Len(T.shape)] = L.fout],
                         [r \in DOMAIN T.rows |->
                            [T.rows[r] EXCEPT !.val = LinearVal(lin, T.rows[r].own)]]),
          upd |-> FALSE]
    [] L.op = "Tanh" ->
         [t |-> Ten(T.shape,
                    [r \in DOMAIN T.rows |->
                       [T.rows[r] EXCEPT !.val = TanhF32(T.rows[r].val)]]),
          upd |-> FALSE]

\* nn.Sequential: the layers from number i on, in order, stopping at an error.
RECURSIVE RunLayers(_, _, _, _, _, _)
RunLayers(layers, i, T, training, lin, tracked) ==
  IF i > Len(layers) \/ ~T.ok THEN [t |-> T, tracked |-> tracked]
  ELSE LET r == ApplyLayer(i, layers[i], T, training, lin, tracked[i])
       IN RunLayers(layers, i + 1, r.t, training, lin,
                    IF r.upd THEN [tracked EXCEPT ![i] = @ + 1] ELSE tracked)

\* ------------------------------------------------------ LatentStateEncoder

\* initial_encoder with a first convolution over num_channels input channels.
initial_encoder_by_num_channels(c) ==
  <<Conv2d(c.num_channels, c.num_filters, 5, 2, 2),
    BatchNorm2d(c.num_filters),
    LeakyReLU,
    Conv2d(c.num_filters, c.num_filters * 2, 5, 2, 2),
    BatchNorm2d(c.num_filters * 2),
    LeakyReLU,
    Conv2d(c.num_filters * 2, c.num_filters * 4, 5, 2, 2),
    BatchNorm2d(c.num_filters * 4),
    LeakyReLU,
    AvgPool2d(4),
    Flatten>>

\* self.initial_encoder
initial_encoder(c) ==
  <<Conv2d(c.z_amort, c.num_filters, 5, 2, 2),
    BatchNorm2d(c.num_filters),
    LeakyReLU,
    Conv2d(c.num_filters, c.num_filters * 2, 5, 2, 2),
    BatchNorm2d(c.num_filters * 2),
    LeakyReLU,
    Conv2d(c.num_filters * 2, c.num_filters * 4, 5, 2, 2),
    BatchNorm2d(c.num_filters * 4),
    LeakyReLU,
    AvgPool2d(4),
    Flatten>>

\* self.initial_encoder_out
initial_encoder_out(c) == Linear(c.num_filters * 4, c.latent_dim)

\* self.out_act
out_act == Tanh

\* The submodules of the encoder in the order forward applies them.
EncoderLayers(c) == initial_encoder(c) \o <<initial_encoder_out(c), out_act>>

\* x[:, -self.z_amort:]: the last z_amort channels.
SliceChannels_Last(x, z_amort) ==
  Ten([x.shape EXCEPT ![2] = Min(z_amort, @)],
      [b \in DOMAIN x.rows |->
         [x.rows[b] EXCEPT
            !.own = SubSeq(@, Len(@) - Min(z_amort, Len(@)) + 1, Len(@))]])

\* x[:, :self.z_amort]
SliceChannels(x, z_amort) ==
  Ten([x.shape EXCEPT ![2] = Min(z_amort, @)],
      [b \in DOMAIN x.rows |->
         [x.rows[b] EXCEPT !.own = SubSeq(@, 1, Min(z_amort, Len(@)))]])

\* LatentStateEncoder.forward: the result t and the update counters after it.
LatentStateEncoder_forward(c, training, lin, counters, x) ==
  RunLayers(EncoderLayers(c), 1, SliceChannels(x, c.z_amort), training, lin, counters)

\* --------------------------------------------------------- EmissionDecoder

\* self.conv_dim
conv_dim(c) == c.num_filters * 4 ^ 3

\* self.decoder
decoder(c) ==
  <<Linear(c.latent_dim, conv_dim(c)),
    BatchNorm1d(conv_dim(c)),
    LeakyReLU,
    UnFlatten(4),
    ConvTranspose2d(conv_dim(c) \div 16, c.num_filters * 4, 4, 1, 0, 0),
    BatchNorm2d(c.num_filters * 4),
    LeakyReLU,
    ConvTranspose2d(c.num_filters * 4, c.num_filters * 2, 5, 2, 1, 0),
    BatchNorm2d(c.num_filters * 2),
    LeakyReLU,
    ConvTranspose2d(c.num_filters * 2, c.num_filters, 5, 2, 1, 1),
    BatchNorm2d(c.num_filters),
    LeakyReLU,
    ConvTranspose2d(c.num_filters, 1, 5, 1, 2, 0),
    Sigmoid>>

\* A flattening that puts row (b, t) of the input at row (t - 1) * batch + b.
FlattenTime_TimeMajor(zts) ==
  LET B == zts.shape[1]
      T == zts.shape[2]
  IN Ten(<<B * T, Prod(SubSeq(zts.shape, 3, Len(zts.shape)))>>,
         [r \in 1 .. B * T |->
            [own |-> zts.rows[((r - 1) % B) + 1].own[((r - 1) \div B) + 1],
             ctx |-> <<>>, val |-> 0]])

\* zts.contiguous().view([zts.shape[0] * zts.shape[1], -1]): row (b, t) of the
\* input becomes row (b - 1) * time + t.
FlattenTime(zts) ==
  LET B == zts.shape[1]
      T == zts.shape[2]
  IN Ten(<<B * T, Prod(SubSeq(zts.shape, 3, Len(zts.shape)))>>,
         [r \in 1 .. B * T |->
            [own |-> zts.rows[((r - 1) \div T) + 1].own[((r - 1) % T) + 1],
             ctx |-> <<>>, val |-> 0]])

\* Frame number f of a view with frames of `size` elements over rows of `per`
\* elements each: the rows it is cut from and where in the first of them it
\* starts.
Frame(rows, per, size, f) ==
  LET first == ((f - 1) * size) \div per
      final == (f * size - 1) \div per
  IN [from |-> (f - 1) * size - first * per,
      rows |-> [k \in 1 .. final - first + 1 |-> rows[first + k]]]

\* x_rec.view([self.batch_size, x_rec.shape[0] // self.batch_size, self.dim, self.dim])
ViewFrames(x_rec, batch_size, dim) ==
  LET shape == <<batch_size, x_rec.shape[1] \div batch_size, dim, dim>>
  IN IF Prod(shape) # Prod(x_rec.shape) THEN Err(0, "view")
     ELSE Ten(shape,
              [f \in 1 .. shape[1] * shape[2] |->
                 Frame(x_rec.rows, Prod(Tail(x_rec.shape)), dim * dim, f)])

\* EmissionDecoder.forward: the result t and the update counters after it.
EmissionDecoder_forward(c, training, lin, counters, zts) ==
  LET r == RunLayers(decoder(c), 1, FlattenTime(zts), training, lin, counters)
  IN [t |-> IF r.t.ok THEN ViewFrames(r.t, c.batch_size, c.dim) ELSE r.t,
      tracked |-> r.tracked]

\* ------------------------------------------------------------------ inputs

NewRow(own) == [own |-> own, ctx |-> <<>>, val |-> 0]

\* A latent vector of the given width.
Vec(v, width) == [j \in 1 .. width |-> v]

\* The decoder input [B, T, width] whose latent at (b, t) is Vec(f[b][t], width).
DecInput(B, T, width, f) ==
  Ten(<<B, T, width>>, [b \in 1 .. B |-> NewRow([t \in 1 .. T |-> Vec(f[b][t], width)])])

\* The decoder inputs of shape [B, T, width]: the zero input, and every choice of
\* latents when B * T <= MaxValN.
DecInputsOf(B, T, width) ==
  {DecInput(B, T, width, [b \in 1 .. B |-> [t \in 1 .. T |-> 0]])}
  \cup (IF B * T <= MaxValN
        THEN {DecInput(B, T, width, f) : f \in [1 .. B -> [1 .. T -> LatentChoices]]}
        ELSE {})

DecInputs ==
  UNION {DecInputsOf(B, T, width) :
           B \in 1 .. MaxBatch, T \in 1 .. MaxTime, width \in WidthChoices}

\* The encoder input [B, C, H, W] whose channel c of row b is image f[b][c].
EncInput(B, C, hw, f) == Ten(<<B, C, hw[1], hw[2]>>, [b \in 1 .. B |-> NewRow(f[b])])

\* The encoder inputs of shape [B, C, hw]: the zero input, and every choice of
\* images when the input is 28 x 28 and B * C <= MaxEncVals.
EncInputsOf(B, C, hw) ==
  {EncInput(B, C, hw, [b \in 1 .. B |-> [c \in 1 .. C |-> 0]])}
  \cup (IF B * C <= MaxEncVals /\ hw = <<28, 28>>
        THEN {EncInput(B, C, hw, f) : f \in [1 .. B -> [1 .. C -> PixelChoices]]}
        ELSE {})

EncInputs ==
  UNION {EncInputsOf(B, C, hw) :
           B \in 1 .. MaxEncBatch, C \in 0 .. MaxChannels, hw \in SpatialChoices}
  \cup
  UNION {EncInputsOf(MaxEncBatch, MaxChannels, <<h, h>>) : h \in 1 .. MaxSpatial}

\* ------------------------------------------------------------------- state

VARIABLES
  kind,      \* "enc": a LatentStateEncoder, "dec": an EmissionDecoder
  cfg,       \* the constructor's arguments, as stored on the module
  training,  \* nn.Module.training
  lin,       \* weight and bias of the module's Linear layer
  tracked,   \* per layer: num_batches_tracked of a normalisation layer
  last,      \* the forward call whose result the caller holds: its input, the
             \* mode and the counters it started from, and its result
  calls,     \* per thread: the forward call it is in, layer by layer
  start      \* the counters when the calls in progress began

vars == <<kind, cfg, training, lin, tracked, last, calls, start>>

\* Two callers of the same module instance.
Threads == {1, 2}

Idle == [st |-> "idle"]

AllIdle == \A th \in Threads : calls[th].st = "idle"

EncoderConfigs ==
  [z_amort : ZAmortChoices, num_filters : NumFiltersChoices, num_channels : {1},
   latent_dim : LatentDimChoices]

DecoderConfigs ==
  [batch_size : BatchSizeChoices, generation_len : GenerationLenChoices,
   dim : DimChoices, num_filters : NumFiltersChoices, num_channels : {1},
   latent_dim : LatentDimChoices]

Layers == IF kind = "enc" THEN EncoderLayers(cfg) ELSE decoder(cfg)

NoCall == [called |-> FALSE]

\* LatentStateEncoder.__init__ and EmissionDecoder.__init__: a module is in
\* training mode when constructed, and no batch has been tracked.
Init ==
  /\ \/ kind = "enc" /\ cfg \in EncoderConfigs
        /\ lin \in LinearChoices
     \/ kind = "dec" /\ cfg \in DecoderConfigs
        /\ lin = [weight |-> 1, bias |-> 0]
  /\ training = TRUE
  /\ tracked = [i \in 1 .. Len(Layers) |-> 0]
  /\ last = NoCall
  /\ calls = [th \in Threads |-> Idle]
  /\ start = tracked

CanTrack == training => \A i \in DOMAIN tracked : tracked[i] < MaxTracked

EncoderForward ==
  /\ kind = "enc"
  /\ ~last.called
  /\ CanTrack
  /\ \E x \in EncInputs :
       LET r == LatentStateEncoder_forward(cfg, training, lin, tracked, x)
       IN /\ tracked' = r.tracked
          /\ last' = [called |-> TRUE, x |-> x, training |-> training,
                      tracked |-> tracked, res |-> r.t]
  /\ UNCHANGED <<kind, cfg, training, lin, calls, start>>

DecoderForward ==
  /\ kind = "dec"
  /\ ~last.called
  /\ CanTrack
  /\ \E zts \in DecInputs :
       LET r == EmissionDecoder_forward(cfg, training, lin, tracked, zts)
       IN /\ tracked' = r.tracked
          /\ last' = [called |-> TRUE, x |-> zts, training |-> training,
                      tracked |-> tracked, res |-> r.t]
  /\ UNCHANGED <<kind, cfg, training, lin, calls, start>>

\* nn.Module.train(), between forward calls
Train ==
  /\ ~training
  /\ AllIdle
  /\ training' = TRUE
  /\ UNCHANGED <<kind, cfg, lin, tracked, last, calls, start>>

\* nn.Module.eval(), between forward calls
Eval ==
  /\ training
  /\ AllIdle
  /\ training' = FALSE
  /\ UNCHANGED <<kind, cfg, lin, tracked, last, calls, start>>

\* The caller is done with the result (or the error) of the call.
Discard ==
  /\ last.called
  /\ last' = NoCall
  /\ UNCHANGED <<kind, cfg, training, lin, tracked, calls, start>>

Next == EncoderForward \/ DecoderForward \/ Train \/ Eval \/ Discard

Spec == Init /\ [][Next]_vars

\* ------------------------------------------- two forward calls, interleaved

\* forward, before the layers: the slice of the encoder, the flattening view of
\* the decoder.
Pre(x) == IF kind = "enc" THEN SliceChannels(x, cfg.z_amort) ELSE FlattenTime(x)

\* forward, after the layers: the decoder's view into frames.
Post(t) ==
  IF kind = "dec" /\ t.ok THEN ViewFrames(t, cfg.batch_size, cfg.dim) ELSE t

\* forward of the module, run alone from the given mode and counters.
Forward(x, mode, counters) ==
  IF kind = "enc" THEN LatentStateEncoder_forward(cfg, mode, lin, counters, x)
  ELSE EmissionDecoder_forward(cfg, mode, lin, counters, x)

\* The inputs of the interleaved calls.
ConcInputs ==
  IF kind = "enc"
  THEN {x \in EncInputs : x.shape = <<1, 2, 28, 28>>}
  ELSE {x \in DecInputs : x.shape = <<1, 2, 2>>}

InitConc ==
  /\ Init
  /\ lin = [weight |-> 1, bias |-> 0]
  /\ kind = "dec" => (cfg.batch_size = 1 /\ cfg.generation_len = 2 /\ cfg.dim \in {28, 32})

\* The layer thread th is about to apply, applied.
NextLayer(th) ==
  ApplyLayer(calls[th].pc, Layers[calls[th].pc], calls[th].t, training, lin,
             tracked[calls[th].pc])

AtLayer(th) ==
  /\ calls[th].st = "run"
  /\ calls[th].t.ok
  /\ calls[th].pc <= Len(Layers)

\* Thread th calls forward.
Begin(th) ==
  /\ calls[th].st = "idle"
  /\ CanTrack
  /\ \E x \in ConcInputs :
       calls' = [calls EXCEPT ![th] =
                   [st |-> "run", x |-> x, pc |-> 1, read |-> FALSE, seen |-> 0,
                    t |-> Pre(x)]]
  /\ start' = IF AllIdle THEN tracked ELSE start
  /\ UNCHANGED <<kind, cfg, training, lin, tracked, last>>

\* The layers from number pc on that leave the module's buffers alone, applied
\* to t up to the first layer that updates its buffers, an error, or the end.
RECURSIVE LocalLayers(_, _)
LocalLayers(pc, t) ==
  IF pc > Len(Layers) \/ ~t.ok THEN [pc |-> pc, t |-> t]
  ELSE LET r == ApplyLayer(pc, Layers[pc], t, training, lin, tracked[pc])
       IN IF r.upd THEN [pc |-> pc, t |-> t] ELSE LocalLayers(pc + 1, r.t)

\* Thread th runs the layers that touch only its own tensors.
LayerStep(th) ==
  /\ AtLayer(th)
  /\ ~NextLayer(th).upd
  /\ LET r == LocalLayers(calls[th].pc, calls[th].t)
     IN calls' = [calls EXCEPT ![th].t = r.t, ![th].pc = r.pc]
  /\ UNCHANGED <<kind, cfg, training, lin, tracked, last, start>>

\* A normalisation layer in training mode updates its buffers in place, with no
\* lock: it reads them ...
NormRead(th) ==
  /\ AtLayer(th)
  /\ NextLayer(th).upd
  /\ ~calls[th].read
  /\ calls' = [calls EXCEPT ![th].read = TRUE, ![th].seen = tracked[calls[th].pc]]
  /\ UNCHANGED <<kind, cfg, training, lin, tracked, last, start>>

\* ... and writes them back.
NormWrite(th) ==
  /\ AtLayer(th)
  /\ NextLayer(th).upd
  /\ calls[th].read
  /\ tracked' = [tracked EXCEPT ![calls[th].pc] = calls[th].seen + 1]
  /\ calls' = [calls EXCEPT ![th].t = NextLayer(th).t, ![th].pc = @ + 1,
                            ![th].read = FALSE]
  /\ UNCHANGED <<kind, cfg, training, lin, last, start>>

\* forward returns its result, or the error of a layer reaches the caller.
Return(th) ==
  /\ calls[th].st = "run"
  /\ ~calls[th].t.ok \/ calls[th].pc > Len(Layers)
  /\ calls' = [calls EXCEPT ![th] =
                 [st |-> "done", x |-> calls[th].x, res |-> Post(calls[th].t)]]
  /\ UNCHANGED <<kind, cfg, training, lin, tracked, last, start>>

\* Both callers are done with their results.
Collect ==
  /\ \A th \in Threads : calls[th].st = "done"
  /\ calls' = [th \in Threads |-> Idle]
  /\ UNCHANGED <<kind, cfg, training, lin, tracked, last, start>>

NextConc ==
  \/ \E th \in Threads :
       Begin(th) \/ LayerStep(th) \/ NormRead(th) \/ NormWrite(th) \/ Return(th)
  \/ Collect
  \/ Train
  \/ Eval

SpecConc == InitConc /\ [][NextConc]_vars

\* ------------------------------------------------------------- properties

EncCall == kind = "enc" /\ last.called
DecCall == kind = "dec" /\ last.called

\* The extent the layers make of an extent h (channels and batch aside).
RECURSIVE OutExtent(_, _)
OutExtent(layers, h) ==
  IF layers = <<>> THEN h
  ELSE LET L == Head(layers)
       IN OutExtent(Tail(layers),
                    CASE L.op = "UnFlatten" -> L.w
                      [] L.op = "ConvTranspose2d" -> ConvTOut(h, L.k, L.s, L.p, L.opad)
                      [] L.op = "Conv2d" -> ConvOut(h, L.k, L.s, L.p)
                      [] L.op = "AvgPool2d" -> PoolOut(h, L.k)
                      [] OTHER -> h)

\* The input of the call has the shape the decoder was constructed for.
DeclaredShape ==
  last.x.shape = <<cfg.batch_size, cfg.generation_len, cfg.latent_dim>>

\* C1 as stated: every decoder returns [batch_size, generation_len, dim, dim]
\* on every input of its declared shape, whatever its dim.
C1_AsStated ==
  (DecCall /\ DeclaredShape) =>
    /\ last.res.ok
    /\ last.res.shape = <<cfg.batch_size, cfg.generation_len, cfg.dim, cfg.dim>>

\* C1: the layer stack makes 32 x 32 frames.  A decoder with dim = 32 returns
\* [batch_size, generation_len, 32, 32] on every input of its declared shape,
\* unless it is in training mode and batch_size * generation_len = 1, which
\* BatchNorm1d refuses; with any other dim the call fails at the final view.
C1_DecoderShape ==
  (DecCall /\ DeclaredShape) =>
    /\ OutExtent(decoder(cfg), 0) = 32
    /\ (last.training /\ cfg.batch_size * cfg.generation_len = 1) =>
         (~last.res.ok /\ last.res.at = 2 /\ last.res.err = "BatchNorm1d")
    /\ (~(last.training /\ cfg.batch_size * cfg.generation_len = 1) /\ cfg.dim = 32) =>
         (last.res.ok /\ last.res.shape = <<cfg.batch_size, cfg.generation_len, 32, 32>>)
    /\ (~(last.training /\ cfg.batch_size * cfg.generation_len = 1) /\ cfg.dim # 32) =>
         (~last.res.ok /\ last.res.err = "view")

C1_Witness ==
  /\ DecCall /\ DeclaredShape /\ cfg.dim = 32 /\ cfg.generation_len > 1
  /\ last.res.ok
  /\ last.res.shape = <<cfg.batch_size, cfg.generation_len, 32, 32>>

\* C2 as stated: the encoder returns [batch, latent_dim] on every input with
\* at least z_amort channels, whatever its height and width.
C2_AsStated ==
  (EncCall /\ last.x.shape[2] >= cfg.z_amort) =>
    (last.res.ok /\ last.res.shape = <<last.x.shape[1], cfg.latent_dim>>)

\* C2: on an input with at least z_amort channels the encoder returns
\* [batch, latent_dim] exactly when height and width both lie in 25 .. 56;
\* a smaller extent fails in AvgPool2d, a larger one in the Linear layer.
C2_EncoderShape ==
  (EncCall /\ last.x.shape[2] >= cfg.z_amort) =>
    LET H == last.x.shape[3]
        W == last.x.shape[4]
    IN /\ (H \in 25 .. 56 /\ W \in 25 .. 56) =>
            (last.res.ok /\ last.res.shape = <<last.x.shape[1], cfg.latent_dim>>)
       /\ (H > 56 \/ W > 56) => ~last.res.ok
       /\ (H < 25 \/ W < 25) => ~last.res.ok

C2_Witness ==
  /\ EncCall /\ last.x.shape[2] > cfg.z_amort
  /\ last.x.shape[3] = 25 /\ last.x.shape[4] = 56
  /\ last.res.ok /\ last.res.shape = <<last.x.shape[1], cfg.latent_dim>>

\* The inputs of the shape of x that agree with x on the first z_amort channels.
ChannelVariants(x, z_amort) ==
  LET keep == Min(z_amort, x.shape[2])
  IN {y \in EncInputsOf(x.shape[1], x.shape[2], <<x.shape[3], x.shape[4]>>) :
        \A b \in DOMAIN x.rows :
          SubSeq(y.rows[b].own, 1, keep) = SubSeq(x.rows[b].own, 1, keep)}

\* C3: an input that differs from the call's input only in channels beyond the
\* first z_amort gives the same result, error or not.
C3_OnlyFirstChannels ==
  EncCall =>
    \A y \in ChannelVariants(last.x, cfg.z_amort) :
      LatentStateEncoder_forward(cfg, last.training, lin, last.tracked, y).t = last.res

C3_Witness ==
  /\ EncCall /\ last.x.shape[2] > cfg.z_amort /\ last.res.ok
  /\ \E y \in ChannelVariants(last.x, cfg.z_amort) : y # last.x

\* C4 as stated: a decoder input whose batch * time is not a multiple of the
\* declared batch_size never gets a result.
C4_AsStated ==
  (DecCall /\ (last.x.shape[1] * last.x.shape[2]) % cfg.batch_size # 0) => ~last.res.ok

\* C5 as stated: a decoder whose layer stack does not make dim x dim frames
\* never returns a result.
C5_AsStated ==
  (DecCall /\ OutExtent(decoder(cfg), 0) # cfg.dim) => ~last.res.ok

\* C6: an encoder input with fewer than z_amort channels is sliced without
\* error to the channels it has and fails in the first convolution.
C6_TooFewChannels ==
  (EncCall /\ last.x.shape[2] < cfg.z_amort) =>
    /\ SliceChannels(last.x, cfg.z_amort).ok
    /\ SliceChannels(last.x, cfg.z_amort).shape[2] = last.x.shape[2]
    /\ ~last.res.ok /\ last.res.at = 1 /\ last.res.err = "Conv2d"

C6_Witness ==
  /\ EncCall /\ last.x.shape[2] = 1 /\ cfg.z_amort = 2
  /\ last.x.shape[3] = 28 /\ last.x.shape[4] = 28
  /\ ~last.res.ok

\* C9 as stated: every entry of an encoder result lies strictly between -1 and 1.
C9_AsStated ==
  (EncCall /\ last.res.ok) =>
    \A r \in DOMAIN last.res.rows :
      last.res.rows[r].val > 0 - One /\ last.res.rows[r].val < One

\* C9: every entry of an encoder result lies in the closed interval [-1, 1].
C9_TanhRange ==
  (EncCall /\ last.res.ok) =>
    \A r \in DOMAIN last.res.rows :
      last.res.rows[r].val >= 0 - One /\ last.res.rows[r].val <= One

C9_Witness ==
  /\ EncCall /\ last.res.ok /\ last.x.shape[1] > 1
  /\ \A r \in DOMAIN last.res.rows : last.res.rows[r].val = One

\* Entry [b, t] of a decoder result.
OutAt(res, b, t) == res.rows[(b - 1) * res.shape[2] + t]

\* The latent at [b, t] of a decoder input.
LatentAt(zts, b, t) == zts.rows[b].own[t]

\* The decoder input whose latent at [b, t] is the latent of zts at [b, p[t]].
PermuteTime(zts, p) ==
  [zts EXCEPT !.rows =
     [b \in DOMAIN zts.rows |->
        [zts.rows[b] EXCEPT !.own = [t \in DOMAIN zts.rows[b].own |-> @[p[t]]]]]]

\* The call's decoder, as it was when called, on another input.
Redecode(zts) == EmissionDecoder_forward(cfg, last.training, lin, last.tracked, zts).t

\* Reordering the time steps of the call's input reorders the frames of the
\* result alike, and the frame at [b, t] is made of the latent at [b, t] alone.
TimeEquivariant ==
  LET B == last.x.shape[1]
      T == last.x.shape[2]
  IN /\ last.res.shape[1] = B /\ last.res.shape[2] = T
     /\ \A b \in 1 .. B, t \in 1 .. T :
          /\ Len(OutAt(last.res, b, t).rows) = 1
          /\ OutAt(last.res, b, t).rows[1].own = LatentAt(last.x, b, t)
     /\ \A p \in Permutations(1 .. T) :
          LET permuted == Redecode(PermuteTime(last.x, p))
          IN /\ permuted.ok /\ permuted.shape = last.res.shape
             /\ \A b \in 1 .. B, t \in 1 .. T :
                  OutAt(permuted, b, t) = OutAt(last.res, b, p[t])

\* C7 as stated: the decoder is equivariant to a reordering of the time steps
\* on every input it accepts.
C7_AsStated == (DecCall /\ last.res.ok) => TimeEquivariant

\* C7: the decoder is equivariant to a reordering of the time steps on every
\* input it accepts whose batch extent is the declared batch_size.
C7_TimeEquivariance ==
  (DecCall /\ last.res.ok /\ last.x.shape[1] = cfg.batch_size) => TimeEquivariant

C7_Witness ==
  /\ DecCall /\ last.res.ok /\ last.x.shape[1] = cfg.batch_size
  /\ last.x.shape[1] > 1 /\ last.x.shape[2] > 1
  /\ \E p \in Permutations(1 .. last.x.shape[2]) : PermuteTime(last.x, p) # last.x

\* The frame at [b, t] of the result is the one every accepted input of the
\* same shape with the same latent at [b, t] gets there.
RowsIndependent ==
  LET B == last.x.shape[1]
      T == last.x.shape[2]
      same == DecInputsOf(B, T, last.x.shape[3])
  IN /\ last.res.shape[1] = B /\ last.res.shape[2] = T
     /\ \A y \in same :
          LET other == Redecode(y)
          IN /\ other.ok
             /\ \A b \in 1 .. B, t \in 1 .. T :
                  LatentAt(y, b, t) = LatentAt(last.x, b, t) =>
                    OutAt(other, b, t) = OutAt(last.res, b, t)

\* C10 as stated: on every input the decoder accepts, the frame at [b, t]
\* depends on the latent at [b, t] alone.
C10_AsStated == (DecCall /\ last.res.ok) => RowsIndependent

\* C10: in evaluation mode, on every input the decoder accepts whose batch
\* extent is the declared batch_size, the frame at [b, t] depends on the latent
\* at [b, t] alone.
C10_RowsIndependent ==
  (DecCall /\ last.res.ok /\ ~last.training /\ last.x.shape[1] = cfg.batch_size) =>
    RowsIndependent

C10_Witness ==
  /\ DecCall /\ last.res.ok /\ ~last.training /\ last.x.shape[1] = cfg.batch_size
  /\ last.x.shape[1] * last.x.shape[2] > 1
  /\ \E y \in DecInputs :
       /\ y.shape = last.x.shape /\ y # last.x
       /\ LatentAt(y, 1, 1) = LatentAt(last.x, 1, 1)

AllDone == \A th \in Threads : calls[th].st = "done"

\* Each call got the result it gets when run alone.
AsAlone ==
  \A th \in Threads : calls[th].res = Forward(calls[th].x, training, start).t

\* C8 as stated: two interleaved forward calls return what each returns alone
\* and leave the buffers of the module as they were.
C8_AsStated == AllDone => (AsAlone /\ tracked = start)

\* C8: two interleaved forward calls return what each returns alone.  In
\* evaluation mode they leave the buffers of the module as they were; in
\* training mode every normalisation layer a call passes has its buffers
\* updated, once or twice.
C8_Interleaved ==
  AllDone =>
    /\ AsAlone
    /\ ~training => tracked = start
    /\ training =>
         \A i \in DOMAIN tracked :
           /\ tracked[i] - start[i] \in 0 .. 2
           /\ (\E th \in Threads :
                 Forward(calls[th].x, training, start).tracked[i] > start[i])
                => tracked[i] > start[i]

C8_Witness ==
  /\ AllDone /\ ~training
  /\ calls[1].x # calls[2].x
  /\ calls[1].res.ok /\ calls[2].res.ok
  /\ \E i \in DOMAIN tracked : tracked[i] > 0

====
